---- MODULE Spec2Model ----
(***************************************************************************)
(* The command-line client of main.py: the input loop of CommandLine.run,  *)
(* the argument extraction of the CommandLine handlers, the channel        *)
(* registry of App (in-memory set and the file "channels"), the timestamp  *)
(* conversions, and the domain operations as far as they reach the driver. *)
(*                                                                         *)
(* A string is a sequence of one-character strings, so that str.upper,     *)
(* str.split, str.startswith, re.split, int(), str() and strftime are      *)
(* computed on the characters.                                             *)
(***************************************************************************)
EXTENDS Integers, Sequences, FiniteSets

VARIABLES state, user_input, channels, file, db, tz, out, closed

vars == <<state, user_input, channels, file, db, tz, out, closed>>

(***************************************************************************)
(* Bounds of the model.                                                    *)
(***************************************************************************)
\* the most POI nodes the modelled database holds
MaxNodes == 2

(***************************************************************************)
(* Characters and strings.                                                 *)
(***************************************************************************)
Lower == <<"a", "b", "c", "d", "e", "f", "g", "h", "i", "j", "k", "l", "m",
           "n", "o", "p", "q", "r", "s", "t", "u", "v", "w", "x", "y", "z">>

Upper == <<"A", "B", "C", "D", "E", "F", "G", "H", "I", "J", "K", "L", "M",
           "N", "O", "P", "Q", "R", "S", "T", "U", "V", "W", "X", "Y", "Z">>

DigitChars == <<"0", "1", "2", "3", "4", "5", "6", "7", "8", "9">>

\* str.upper() on one character: a lower-case letter maps to its capital
upper_char(c) ==
    IF \E i \in DOMAIN Lower : Lower[i] = c
    THEN Upper[CHOOSE i \in DOMAIN Lower : Lower[i] = c]
    ELSE c

\* str.upper()
upper(s) == [i \in DOMAIN s |-> upper_char(s[i])]

\* str.startswith(prefix)
startswith(s, prefix) ==
    /\ Len(s) >= Len(prefix)
    /\ SubSeq(s, 1, Len(prefix)) = prefix

RECURSIVE split_from(_, _, _, _, _)
\* scan s from position i; cur is the field being read, acc the fields read
split_from(s, seps, i, cur, acc) ==
    IF i > Len(s) THEN Append(acc, cur)
    ELSE IF s[i] \in seps
         THEN split_from(s, seps, i + 1, <<>>, Append(acc, cur))
         ELSE split_from(s, seps, i + 1, Append(cur, s[i]), acc)

\* str.split(' '): every single space separates, so that repeated spaces
\* give empty fields and the result never is empty
split(s) == split_from(s, {" "}, 1, <<>>, <<>>)

\* re.split("[-_:]", s)
re_split(s) == split_from(s, {"-", "_", ":"}, 1, <<>>, <<>>)

\* list[1:]
tail_of(l) == SubSeq(l, 2, Len(l))

RECURSIVE join(_)
\* ' '.join(tokens): the line whose split(' ') is tokens
join(tokens) ==
    IF Len(tokens) = 0 THEN <<>>
    ELSE IF Len(tokens) = 1 THEN tokens[1]
    ELSE tokens[1] \o <<" ">> \o join(Tail(tokens))

\* the digit a character stands for
digit_value(c) == (CHOOSE i \in DOMAIN DigitChars : DigitChars[i] = c) - 1

is_digit(c) == \E i \in DOMAIN DigitChars : DigitChars[i] = c

\* int(s) succeeds: s is a non-empty run of decimal digits (the fields that
\* re.split leaves hold no sign, and the inputs hold no blanks or underscores)
int_ok(s) == Len(s) > 0 /\ \A i \in DOMAIN s : is_digit(s[i])

RECURSIVE int_digits(_, _)
int_digits(s, n) ==
    IF n = 0 THEN 0 ELSE 10 * int_digits(s, n - 1) + digit_value(s[n])

\* int(s) for a run of digits
int_of(s) == int_digits(s, Len(s))

RECURSIVE nat_str(_)
nat_str(n) ==
    IF n < 10 THEN <<DigitChars[n + 1]>>
    ELSE Append(nat_str(n \div 10), DigitChars[(n % 10) + 1])

\* str(n) for an integer n
str_of(n) == IF n < 0 THEN <<"-">> \o nat_str(0 - n) ELSE nat_str(n)

\* the integer a decimal literal of the query text denotes
literal_value(s) ==
    IF Len(s) > 0 /\ s[1] = "-" THEN 0 - int_of(Tail(s)) ELSE int_of(s)

RECURSIVE pad_left(_, _)
pad_left(d, width) ==
    IF Len(d) >= width THEN d ELSE pad_left(<<"0">> \o d, width)

\* '%02d' / '%04d' of strftime: n in decimal, at least width digits
zero_pad(n, width) == pad_left(nat_str(n), width)

(***************************************************************************)
(* Calendar arithmetic of datetime, time.mktime and utcfromtimestamp.      *)
(***************************************************************************)
is_leap(y) == (y % 4 = 0 /\ y % 100 # 0) \/ y % 400 = 0

days_in_month(y, m) ==
    IF m = 2 THEN (IF is_leap(y) THEN 29 ELSE 28)
    ELSE IF m \in {4, 6, 9, 11} THEN 30 ELSE 31

\* datetime(year, month, day, hour, minute) accepts its arguments
datetime_ok(y, m, d, h, mi) ==
    /\ y >= 1 /\ y <= 9999
    /\ m >= 1 /\ m <= 12
    /\ d >= 1 /\ d <= days_in_month(y, m)
    /\ h >= 0 /\ h <= 23
    /\ mi >= 0 /\ mi <= 59

\* days from 1970-01-01 to the civil date y-m-d (proleptic Gregorian)
days_from_civil(y, m, d) ==
    LET yy  == IF m <= 2 THEN y - 1 ELSE y
        era == yy \div 400
        yoe == yy - era * 400
        mp  == (m + 9) % 12
        doy == (153 * mp + 2) \div 5 + d - 1
        doe == yoe * 365 + yoe \div 4 - yoe \div 100 + doy
    IN  era * 146097 + doe - 719468

\* the civil date of a day number
civil_from_days(z0) ==
    LET z   == z0 + 719468
        era == z \div 146097
        doe == z - era * 146097
        yoe == (doe - doe \div 1460 + doe \div 36524 - doe \div 146096) \div 365
        doy == doe - (365 * yoe + yoe \div 4 - yoe \div 100)
        mp  == (5 * doy + 2) \div 153
        d   == doy - (153 * mp + 2) \div 5 + 1
        m   == IF mp < 10 THEN mp + 3 ELSE mp - 9
        y   == yoe + era * 400 + (IF m <= 2 THEN 1 ELSE 0)
    IN  [year |-> y, month |-> m, day |-> d]

\* time.mktime(dt.timetuple()): dt is read as LOCAL time; offset is the
\* number of seconds local time is ahead of UTC
mktime(y, m, d, h, mi, offset) ==
    days_from_civil(y, m, d) * 86400 + h * 3600 + mi * 60 - offset

\* datetime.utcfromtimestamp(unix_time): the UTC civil time
utcfromtimestamp(unix_time) ==
    LET days == unix_time \div 86400
        secs == unix_time % 86400
        c    == civil_from_days(days)
    IN  [year |-> c.year, month |-> c.month, day |-> c.day,
         hour |-> secs \div 3600, minute |-> (secs % 3600) \div 60,
         second |-> secs % 60]

\* strftime('%Y-%m-%d %H:%M:%S')
strftime(t) ==
    zero_pad(t.year, 4) \o <<"-">> \o zero_pad(t.month, 2) \o <<"-">>
    \o zero_pad(t.day, 2) \o <<" ">> \o zero_pad(t.hour, 2) \o <<":">>
    \o zero_pad(t.minute, 2) \o <<":">> \o zero_pad(t.second, 2)

\* App.get_datetime
get_datetime(unix_time) == strftime(utcfromtimestamp(unix_time))

\* App.get_unixtime under the local offset: the exception it raises, if any,
\* and the string it returns
get_unixtime(date_time, offset) ==
    LET dt_split == re_split(date_time)
        bad == {i \in 1..5 : i > Len(dt_split) \/ ~int_ok(dt_split[i])}
        first == CHOOSE i \in bad : \A j \in bad : i <= j
    IN  IF bad # {}
        THEN [raised |-> IF first > Len(dt_split) THEN "IndexError"
                         ELSE "ValueError",
              value |-> <<>>]
        ELSE LET year   == int_of(dt_split[1])
                 month  == int_of(dt_split[2])
                 day    == int_of(dt_split[3])
                 hour   == int_of(dt_split[4])
                 minute == int_of(dt_split[5])
             IN  IF ~datetime_ok(year, month, day, hour, minute)
                 THEN [raised |-> "ValueError", value |-> <<>>]
                 ELSE [raised |-> "none",
                       value |-> str_of(mktime(year, month, day, hour,
                                               minute, offset))]

(***************************************************************************)
(* The literals of CommandLine.run.                                        *)
(***************************************************************************)
tok_q == <<"!", "q">>

tok_adv == <<"!", "a", "d", "v">>

tok_basic == <<"!", "b", "a", "s", "i", "c">>

tok_add_poi == <<"!", "a", "d", "d", "_", "p", "o", "i", " ">>

tok_update_poi ==
    <<"!", "u", "p", "d", "a", "t", "e", "_", "p", "o", "i", " ">>

tok_add_channel ==
    <<"!", "a", "d", "d", "_", "c", "h", "a", "n", "n", "e", "l", " ">>

tok_outgoing == <<"!", "o", "u", "t", "g", "o", "i", "n", "g", " ">>

tok_communicated_with ==
    <<"!", "c", "o", "m", "m", "u", "n", "i", "c", "a", "t", "e", "d", "_",
    "w", "i", "t", "h", " ">>

tok_comm_between ==
    <<"!", "c", "o", "m", "m", "_", "b", "e", "t", "w", "e", "e", "n", " ">>

tok_add_ci == <<"!", "a", "d", "d", "_", "c", "i", " ">>

tok_direct_channels ==
    <<"!", "d", "i", "r", "e", "c", "t", "_", "c", "h", "a", "n", "n", "e",
    "l", "s", " ">>

tok_channels_date ==
    <<"!", "c", "h", "a", "n", "n", "e", "l", "s", "_", "d", "a", "t", "e",
    " ">>

(***************************************************************************)
(* The driver and the database behind it.                                  *)
(*                                                                         *)
(* db.pois is the set of POI nodes, a node being its identity and its set  *)
(* of <<key, value>> properties; the identity of a node is the name it was *)
(* created with and its rank among the nodes created with that name.       *)
(* db.cis is the set of relationships, each between two node identities.   *)
(* What the server makes of an ADVANCED-mode query is not modelled: the    *)
(* query is recorded as issued.  The rows of the two path traversals are   *)
(* not modelled.                                                           *)
(***************************************************************************)
name_key == <<"n", "a", "m", "e">>

LogTemplate ==
    <<"{", "q", "u", "e", "r", "y", "}", " ", "r", "a", "i", "s", "e", "d",
    " ", "a", "n", " ", "e", "r", "r", "o", "r", ":", " ", "\n", " ", "{",
    "e", "x", "c", "e", "p", "t", "i", "o", "n">>

\* what a call into the driver can do: answer, fail with ServiceUnavailable
\* when the query is run or when its rows are fetched, or fail with another
\* driver error (a ClientError such as a syntax error of the built query)
DriverOutcomes == {"ok", "su_run", "su_fetch", "client_error"}

\* what session.run of a raw query can do
RawOutcomes == {"ok", "syntax", "su_run", "client_error"}

RECURSIVE format_scan(_, _, _)
\* str.format scanning template t from i: TRUE iff it raises ValueError
\* (a "{" that is never closed, or a single "}")
format_scan(t, i, infield) ==
    IF i > Len(t) THEN infield
    ELSE IF infield
         THEN format_scan(t, i + 1, t[i] # "}")
         ELSE IF t[i] = "{"
              THEN IF i < Len(t) /\ t[i + 1] = "{"
                   THEN format_scan(t, i + 2, FALSE)
                   ELSE format_scan(t, i + 1, TRUE)
              ELSE IF t[i] = "}"
                   THEN IF i < Len(t) /\ t[i + 1] = "}"
                        THEN format_scan(t, i + 2, FALSE)
                        ELSE TRUE
                   ELSE format_scan(t, i + 1, FALSE)

\* "...".format(query=query, exception=exception) raises
format_raises(t) == format_scan(t, 1, FALSE)

\* the except ServiceUnavailable clause: logging.error(template.format(..))
\* and then a bare raise; format is evaluated first, and when it raises,
\* nothing is logged and its ValueError replaces the driver's error
except_ServiceUnavailable ==
    IF format_raises(LogTemplate)
    THEN [raised |-> "ValueError", logged |-> FALSE]
    ELSE [raised |-> "ServiceUnavailable", logged |-> TRUE]

\* a transaction function whose tx.run is outside the try and whose row
\* comprehension is inside it
tx_rows_in_try(r) ==
    CASE r = "ok" -> [raised |-> "none", logged |-> FALSE]
      [] r = "su_run" -> [raised |-> "ServiceUnavailable", logged |-> FALSE]
      [] r = "su_fetch" -> except_ServiceUnavailable
      [] r = "client_error" -> [raised |-> "ClientError", logged |-> FALSE]

\* a transaction function with nothing that can raise inside a try: tx.run
\* and result.data() come before it
tx_no_try(r) ==
    CASE r = "ok" -> [raised |-> "none", logged |-> FALSE]
      [] r \in {"su_run", "su_fetch"} ->
            [raised |-> "ServiceUnavailable", logged |-> FALSE]
      [] r = "client_error" -> [raised |-> "ClientError", logged |-> FALSE]

\* the query a transaction function hands to tx.run
Query(fn, access, args) == [fn |-> fn, access |-> access, args |-> args]

\* MATCH (p:POI {name: x}): the identities of the nodes named x
match_poi(d, x) == {n.id : n \in {m \in d.pois : <<name_key, x>> \in m.props}}

\* the value of property name of the node with identity id
poi_name(d, id) ==
    LET n == CHOOSE m \in d.pois : m.id = id
    IN  (CHOOSE kv \in n.props : kv[1] = name_key)[2]

RECURSIVE order_by_start_time(_)
\* ORDER BY r.start_time
order_by_start_time(rs) ==
    IF rs = {} THEN <<>>
    ELSE LET m == CHOOSE x \in rs : \A y \in rs : x.start_time <= y.start_time
         IN  <<m>> \o order_by_start_time(rs \ {m})

\* the line the callers print for a row: type, nodes and get_datetime of
\* both times
print_row(d, ci) ==
    [type |-> ci.type, start_node |-> poi_name(d, ci.from),
     end_node |-> poi_name(d, ci.to),
     start_time |-> get_datetime(ci.start_time),
     end_time |-> get_datetime(ci.end_time)]

print_rows(d, rs) ==
    LET rows == order_by_start_time(rs)
    IN  [i \in DOMAIN rows |-> print_row(d, rows[i])]

\* the effect of running code that reaches no driver
no_effect(d) ==
    [raised |-> "none", logged |-> FALSE, session |-> FALSE,
     queries |-> <<>>, printed |-> <<>>, rows |-> <<>>, db |-> d]

\* a raise before any session is opened
raise(d, exception) == [no_effect(d) EXCEPT !.raised = exception]

\* one managed transaction in one session: the query, what the transaction
\* function did (o), and on success the database after it and the lines
\* printed from its rows
session_transaction(d, query, o, after, printed, rows) ==
    [raised |-> o.raised, logged |-> o.logged, session |-> TRUE,
     queries |-> <<query>>,
     printed |-> IF o.raised = "none" THEN printed ELSE <<>>,
     rows |-> IF o.raised = "none" THEN rows ELSE <<>>,
     db |-> IF o.raised = "none" THEN after ELSE d]

(***************************************************************************)
(* The if/elif chains of CommandLine.run.                                  *)
(***************************************************************************)
\* the BASIC chain testing the mode commands with startswith
basic_branch_prefix(line) ==
    IF startswith(line, tok_q) THEN "quit"
    ELSE IF startswith(line, tok_adv) THEN "adv"
    ELSE IF startswith(line, tok_basic) THEN "basic"
    ELSE IF startswith(line, tok_add_poi) THEN "add_poi"
    ELSE IF startswith(line, tok_update_poi) THEN "update_poi"
    ELSE IF startswith(line, tok_add_channel) THEN "add_channel"
    ELSE IF startswith(line, tok_outgoing) THEN "outgoing"
    ELSE IF startswith(line, tok_communicated_with) THEN "communicated_with"
    ELSE IF startswith(line, tok_comm_between) THEN "comm_between"
    ELSE IF startswith(line, tok_add_ci) THEN "add_ci"
    ELSE IF startswith(line, tok_direct_channels) THEN "direct_channels"
    ELSE IF startswith(line, tok_channels_date) THEN "channels_date"
    ELSE "unknown"

\* the BASIC chain matching the command words without their blank
basic_branch_no_blank(line) ==
    LET word(p) == SubSeq(p, 1, Len(p) - 1)
    IN  IF line = tok_q THEN "quit"
        ELSE IF line = tok_adv THEN "adv"
        ELSE IF line = tok_basic THEN "basic"
        ELSE IF startswith(line, word(tok_add_poi)) THEN "add_poi"
        ELSE IF startswith(line, word(tok_update_poi)) THEN "update_poi"
        ELSE IF startswith(line, word(tok_add_channel)) THEN "add_channel"
        ELSE IF startswith(line, word(tok_outgoing)) THEN "outgoing"
        ELSE IF startswith(line, word(tok_communicated_with))
             THEN "communicated_with"
        ELSE IF startswith(line, word(tok_comm_between)) THEN "comm_between"
        ELSE IF startswith(line, word(tok_add_ci)) THEN "add_ci"
        ELSE IF startswith(line, word(tok_direct_channels))
             THEN "direct_channels"
        ELSE IF startswith(line, word(tok_channels_date)) THEN "channels_date"
        ELSE "unknown"

\* the branch of the BASIC if/elif chain a line takes
basic_branch(line) ==
    IF line = tok_q THEN "quit"
    ELSE IF line = tok_adv THEN "adv"
    ELSE IF line = tok_basic THEN "basic"
    ELSE IF startswith(line, tok_add_poi) THEN "add_poi"
    ELSE IF startswith(line, tok_update_poi) THEN "update_poi"
    ELSE IF startswith(line, tok_add_channel) THEN "add_channel"
    ELSE IF startswith(line, tok_outgoing) THEN "outgoing"
    ELSE IF startswith(line, tok_communicated_with) THEN "communicated_with"
    ELSE IF startswith(line, tok_comm_between) THEN "comm_between"
    ELSE IF startswith(line, tok_add_ci) THEN "add_ci"
    ELSE IF startswith(line, tok_direct_channels) THEN "direct_channels"
    ELSE IF startswith(line, tok_channels_date) THEN "channels_date"
    ELSE "unknown"

\* the ADVANCED chain testing the mode commands with startswith
advanced_branch_prefix(line) ==
    IF startswith(line, tok_q) THEN "quit"
    ELSE IF startswith(line, tok_basic) THEN "basic"
    ELSE IF startswith(line, tok_adv) THEN "adv"
    ELSE "query"

\* the branch of the ADVANCED if/elif chain a line takes
advanced_branch(line) ==
    IF line = tok_q THEN "quit"
    ELSE IF line = tok_basic THEN "basic"
    ELSE IF line = tok_adv THEN "adv"
    ELSE "query"

(***************************************************************************)
(* The lines typed at the prompt.                                          *)
(***************************************************************************)
w_bogus == <<"!", "b", "o", "g", "u", "s">>

w_advx == <<"!", "a", "d", "v", "x">>

w_foo == <<"f", "o", "o">>

w_signal == <<"s", "i", "g", "n", "a", "l">>

w_Signal == <<"S", "i", "g", "n", "a", "l">>

w_nochan == <<"n", "o", "c", "h", "a", "n">>

w_alice == <<"a", "l", "i", "c", "e">>

w_bob == <<"b", "o", "b">>

w_age == <<"a", "g", "e">>

w_one == <<"1">>

w_two == <<"2">>

w_RETURN == <<"R", "E", "T", "U", "R", "N">>

t_0900 ==
    <<"2", "0", "2", "4", "-", "0", "1", "-", "0", "1", "_", "0", "9", ":",
    "0", "0">>

t_0905 ==
    <<"2", "0", "2", "4", "-", "0", "1", "-", "0", "1", "_", "0", "9", ":",
    "0", "5">>

t_1030 ==
    <<"2", "0", "2", "4", "-", "0", "3", "-", "0", "1", "_", "1", "0", ":",
    "3", "0">>

t_month13 ==
    <<"2", "0", "2", "4", "-", "1", "3", "-", "0", "1", "_", "1", "0", ":",
    "3", "0">>

t_short == <<"2", "0", "2", "4", "-", "0", "3", "-", "0", "1">>

L_TOR == <<"T", "O", "R">>

\* the local offsets from UTC, in seconds, the process may run under
Offsets == {0 - 18000, 0, 3600}

\* the channel files the program may be started on: lines it has written
InitialFiles == {<<>>, L_TOR \o <<"\n">>}

\* a command line: the prefix with its blank, then the arguments
command(prefix, args) == prefix \o join(args)

\* the three mode commands, lines that merely start with one of them, a
\* line that is no command, a command word without its blank, a raw query
PlainLines ==
    {tok_q, tok_adv, tok_basic, tok_q \o <<" ">>, w_advx,
     w_bogus \o <<" ">> \o w_foo,
     SubSeq(tok_add_poi, 1, Len(tok_add_poi) - 1),
     w_RETURN \o <<" ">> \o w_one}

\* argument lists of the declared length
GoodArgs(prefix) ==
    CASE prefix = tok_add_poi -> {<<w_alice>>, <<w_bob>>}
      [] prefix = tok_update_poi -> {<<w_alice, w_age, w_one>>}
      [] prefix = tok_add_channel -> {<<w_signal>>, <<w_Signal>>}
      [] prefix = tok_outgoing -> {<<w_alice>>}
      [] prefix = tok_communicated_with -> {<<w_alice, w_two>>}
      [] prefix = tok_comm_between -> {<<w_alice, w_bob>>}
      [] prefix = tok_add_ci ->
            {<<w_alice, w_signal, w_bob, t_0900, t_0905>>,
             <<w_alice, w_Signal, w_bob, t_0900, t_0905>>,
             <<w_signal, w_alice, w_bob, t_0900, t_0905>>,
             <<w_alice, w_nochan, w_bob, t_0900, t_0905>>,
             <<w_alice, w_signal, w_bob, t_month13, t_0905>>,
             <<w_alice, w_signal, w_bob, t_0900, t_short>>}
      [] prefix = tok_direct_channels -> {<<w_alice, w_bob>>}
      [] prefix = tok_channels_date ->
            {<<t_0900, t_1030>>, <<t_month13, t_1030>>}

\* the command prefixes of the BASIC chain
Prefixes ==
    {tok_add_poi, tok_update_poi, tok_add_channel, tok_outgoing,
     tok_communicated_with, tok_comm_between, tok_add_ci,
     tok_direct_channels, tok_channels_date}

\* one argument list of the declared length for each command
SampleArgs(prefix) ==
    CASE prefix = tok_add_ci -> <<w_alice, w_signal, w_bob, t_0900, t_0905>>
      [] prefix = tok_channels_date -> <<t_0900, t_1030>>
      [] prefix = tok_add_channel -> <<w_signal>>
      [] OTHER -> CHOOSE a \in GoodArgs(prefix) : a[1] = w_alice

\* argument lists of another length: the last argument dropped, one more
\* appended, and an empty one (a doubled blank) put in front
BadArgs(prefix) ==
    LET g == SampleArgs(prefix)
    IN  (IF Len(g) > 1 THEN {SubSeq(g, 1, Len(g) - 1)} ELSE {})
        \cup {Append(g, w_foo), <<<<>>>> \o g}

InputLines ==
    PlainLines
    \cup UNION {{command(p, a) : a \in GoodArgs(p) \cup BadArgs(p)} :
                p \in Prefixes}

\* the lines by the branch they take in each mode
BasicLines == [b \in {basic_branch(l) : l \in InputLines} |->
                  {l \in InputLines : basic_branch(l) = b}]

AdvancedLines ==
    LET typed == PlainLines \cup {command(tok_add_poi, <<w_alice>>),
                                  command(tok_add_channel, <<w_signal>>)}
    IN  [b \in {advanced_branch(l) : l \in typed} |->
            {l \in typed : advanced_branch(l) = b}]

(***************************************************************************)
(* The string functions the handlers apply to a line or to one of its      *)
(* arguments, tabulated once over the input lines and their arguments.     *)
(***************************************************************************)
\* the arguments that occur in the input lines
Words ==
    UNION {{tail_of(split(l))[i] : i \in DOMAIN tail_of(split(l))} :
           l \in InputLines}

\* user_input.split(' ')
split_table == [l \in InputLines |-> split(l)]

\* word.upper()
upper_table == [w \in Words |-> upper(w)]

\* App.get_unixtime(word) under each local offset
get_unixtime_table == [w \in Words, o \in Offsets |-> get_unixtime(w, o)]

(***************************************************************************)
(* The domain operations of App.  Each takes the database d and the        *)
(* driver's outcome r and gives the effect of the call.                    *)
(***************************************************************************)
\* rows of MATCH (p1:POI {name: $p1})-[r]-(p2:POI {name: $p2})
_get_direct_channels(d, p1, p2) ==
    {ci \in d.cis :
        \/ ci.from \in match_poi(d, p1) /\ ci.to \in match_poi(d, p2)
        \/ ci.from \in match_poi(d, p2) /\ ci.to \in match_poi(d, p1)}

get_direct_channels(d, contacting, contacted, r) ==
    LET rs == _get_direct_channels(d, contacting, contacted)
        e  == session_transaction(d,
                 Query("_get_direct_channels", "read", <<contacting, contacted>>),
                 tx_rows_in_try(r), d, [i \in 1..Cardinality(rs) |-> "row"],
                 print_rows(d, rs))
    IN  [e EXCEPT !.printed = <<"header">> \o @]

\* rows of MATCH (poi:POI {name: $poi})-[r]->(n)
_find_all_outgoing_contacts(d, poi) ==
    {ci \in d.cis : ci.from \in match_poi(d, poi)}

find_all_outgoing_contacts(d, poi, r) ==
    LET rs == _find_all_outgoing_contacts(d, poi)
        e  == session_transaction(d,
                 Query("_find_all_outgoing_contacts", "read", <<poi>>),
                 tx_rows_in_try(r), d, [i \in 1..Cardinality(rs) |-> "row"],
                 print_rows(d, rs))
    IN  [e EXCEPT !.printed = <<"header">> \o @]

\* the relationships MERGE leaves between every contacting and every
\* contacted node, with the times as the integer literals of the query text
_add_ci(d, relationship, contacting, contacted, start, end) ==
    {[type |-> relationship, from |-> i, to |-> j,
      start_time |-> literal_value(start), end_time |-> literal_value(end)] :
        i \in match_poi(d, contacting), j \in match_poi(d, contacted)}

add_ci(d, relationship, contacting, contacted, start, end, offset, r) ==
    LET s == get_unixtime_table[start, offset]
        e == get_unixtime_table[end, offset]
        rel == upper_table[relationship]
        merged == _add_ci(d, rel, contacting, contacted, s.value, e.value)
    IN  IF s.raised # "none" THEN raise(d, s.raised)
        ELSE IF e.raised # "none" THEN raise(d, e.raised)
        ELSE session_transaction(d,
                Query("_add_ci", "write",
                      <<rel, contacting, contacted, s.value, e.value>>),
                tx_no_try(r), [d EXCEPT !.cis = @ \cup merged],
                [i \in 1..Cardinality(merged) |-> "added ci"], <<>>)

\* rows of MATCH (n1)-[r]->(n2) WHERE from <= r.start_time <= to
_get_channels_date(d, from_date_time, to_date_time) ==
    {ci \in d.cis : /\ literal_value(from_date_time) <= ci.start_time
                    /\ ci.start_time <= literal_value(to_date_time)}

get_channels_date(d, from_date_time, to_date_time, offset, r) ==
    LET f == get_unixtime_table[from_date_time, offset]
        t == get_unixtime_table[to_date_time, offset]
        rs == _get_channels_date(d, f.value, t.value)
    IN  IF f.raised # "none" THEN raise(d, f.raised)
        ELSE IF t.raised # "none" THEN raise(d, t.raised)
        ELSE session_transaction(d,
                Query("_get_channels_date", "read", <<f.value, t.value>>),
                tx_rows_in_try(r), d,
                <<"header">> \o [i \in 1..Cardinality(rs) |-> "row"],
                print_rows(d, rs))

\* CREATE (p:POI {name: name})
_add_poi(d, name) ==
    LET rank == Cardinality({m \in d.pois : m.id[1] = name}) + 1
    IN  [d EXCEPT !.pois = @ \cup {[id |-> <<name, rank>>,
                                    props |-> {<<name_key, name>>}]}]

add_poi(d, name, r) ==
    session_transaction(d, Query("_add_poi", "write", <<name>>),
                        tx_rows_in_try(r), _add_poi(d, name),
                        <<"Created POI">>, <<>>)

communicated_with(d, poi, degrees, r) ==
    session_transaction(d, Query("_communicated_with", "read", <<poi, degrees>>),
                        tx_rows_in_try(r), d, <<"Length between">>, <<>>)

communication_between(d, x, y, r) ==
    session_transaction(d, Query("_communication_between", "read", <<x, y>>),
                        tx_no_try(r), d, <<"the chain of relationships">>,
                        <<>>)

\* MATCH (poi:POI {name: poi}) SET poi.info_key = info_value
_update_poi(d, poi, info_key, info_value) ==
    [d EXCEPT !.pois =
        {IF n.id \in match_poi(d, poi)
         THEN [n EXCEPT !.props = {kv \in @ : kv[1] # info_key}
                                  \cup {<<info_key, info_value>>}]
         ELSE n : n \in @}]

update_poi(d, poi, info_key, info_value, r) ==
    session_transaction(d,
        Query("_update_poi", "write", <<poi, info_key, info_value>>),
        tx_no_try(r), _update_poi(d, poi, info_key, info_value),
        <<"updated record">>, <<>>)

\* session.run(Query(query)): one auto-commit query, the text as typed
run_advanced_mode_query(d, query, r) ==
    [raised |-> CASE r = "ok" -> "none"
                  [] r = "syntax" -> "CypherSyntaxError"
                  [] r = "su_run" -> "ServiceUnavailable"
                  [] r = "client_error" -> "ClientError",
     logged |-> FALSE, session |-> TRUE,
     queries |-> <<Query("run", "auto", <<query>>)>>,
     printed |-> <<>>, rows |-> <<>>, db |-> d]

(***************************************************************************)
(* The channel registry: the set App.channels and the file "channels",     *)
(* the file being its characters.                                          *)
(***************************************************************************)
\* the lines "for line in f" yields, each without its newline
readlines(f) ==
    LET parts == split_from(f, {"\n"}, 1, <<>>, <<>>)
    IN  IF parts[Len(parts)] = <<>> THEN SubSeq(parts, 1, Len(parts) - 1)
        ELSE parts

\* App.load_channels: the set is cleared and refilled from the file
load_channels(f) == {readlines(f)[i] : i \in DOMAIN readlines(f)}

\* channel_exists without the upper(): a case-sensitive test
channel_exists_exact(chs, channel) == channel \in chs

\* App.channel_exists
channel_exists(chs, channel) == upper_table[channel] \in chs

\* add_channel without the closing load_channels(): the set is left stale
add_channel_no_reload(chs, f, channel) ==
    LET ch == upper_table[channel]
    IN  IF channel_exists(chs, channel)
        THEN [channels |-> chs, file |-> f,
              printed |-> <<"Channel already exists">>]
        ELSE [channels |-> chs, file |-> f \o ch \o <<"\n">>,
              printed |-> <<>>]

\* App.add_channel: the registry and the file after it, and what it printed
add_channel(chs, f, channel) ==
    LET ch == upper_table[channel]
    IN  IF channel_exists(chs, channel)
        THEN [channels |-> chs, file |-> f,
              printed |-> <<"Channel already exists">>]
        ELSE [channels |-> load_channels(f \o ch \o <<"\n">>),
              file |-> f \o ch \o <<"\n">>, printed |-> <<>>]

(***************************************************************************)
(* The handlers of CommandLine.  Each takes the line, the database, the    *)
(* registry, the file, the local offset and the driver's outcome, and      *)
(* gives the effect of the handler: the exception it lets out ("none" if   *)
(* none), what it printed, the calls of App operations it made, and the    *)
(* database, registry and file after it.                                   *)
(***************************************************************************)
Call(op, args) == [op |-> op, args |-> args]

\* the handler's effect from the effect e of the code it ran on the database
handled(e, chs, f, calls, announce) ==
    [raised |-> e.raised, logged |-> e.logged, session |-> e.session,
     queries |-> e.queries, printed |-> announce \o e.printed,
     rows |-> e.rows, db |-> e.db, channels |-> chs, file |-> f,
     calls |-> calls]

\* a, b, c = args with the wrong number of values: ValueError, nothing done
unpack_error(d, chs, f) == handled(raise(d, "ValueError"), chs, f, <<>>, <<>>)

CommandLine_update_poi(line, d, chs, f, offset, r) ==
    LET a == tail_of(split_table[line])
    IN  IF Len(a) # 3 THEN unpack_error(d, chs, f)
        ELSE handled(update_poi(d, a[1], a[2], a[3], r), chs, f,
                     <<Call("update_poi", a)>>, <<"updating">>)

CommandLine_add_channel(line, d, chs, f, offset, r) ==
    LET a == tail_of(split_table[line])
        reg == add_channel(chs, f, a[1])
    IN  IF Len(a) # 1 THEN unpack_error(d, chs, f)
        ELSE handled([no_effect(d) EXCEPT !.printed = reg.printed],
                     reg.channels, reg.file,
                     <<Call("add_channel", a)>>, <<"adding">>)

\* poi = args; poi[0] is used, whatever else the list holds
CommandLine_outgoing_channels(line, d, chs, f, offset, r) ==
    LET poi == tail_of(split_table[line])
    IN  IF Len(poi) = 0 THEN handled(raise(d, "IndexError"), chs, f, <<>>, <<>>)
        ELSE handled(find_all_outgoing_contacts(d, poi[1], r), chs, f,
                     <<Call("find_all_outgoing_contacts", <<poi[1]>>)>>,
                     <<"find all outgoing channels">>)

CommandLine_communicated_with(line, d, chs, f, offset, r) ==
    LET a == tail_of(split_table[line])
    IN  IF Len(a) # 2 THEN unpack_error(d, chs, f)
        ELSE handled(communicated_with(d, a[1], a[2], r), chs, f,
                     <<Call("communicated_with", a)>>, <<"who has">>)

CommandLine_communication_between(line, d, chs, f, offset, r) ==
    LET a == tail_of(split_table[line])
    IN  IF Len(a) # 2 THEN unpack_error(d, chs, f)
        ELSE handled(communication_between(d, a[1], a[2], r), chs, f,
                     <<Call("communication_between", a)>>, <<"has">>)

\* add_ci unpacking channel, poi1, poi2, start, end = args
CommandLine_add_ci_channel_first(line, d, chs, f, offset, r) ==
    LET a == tail_of(split_table[line])
    IN  IF Len(a) # 5 THEN unpack_error(d, chs, f)
        ELSE IF channel_exists(chs, a[1])
        THEN handled(add_ci(d, a[1], a[2], a[3], a[4], a[5], offset, r),
                     chs, f, <<Call("add_ci", a)>>, <<"adding">>)
        ELSE handled(no_effect(d), chs, f, <<>>,
                     <<"specified channel does not exist">>)

\* poi1, channel, poi2, start, end = args
CommandLine_add_ci(line, d, chs, f, offset, r) ==
    LET a == tail_of(split_table[line])
        poi1 == a[1]
        channel == a[2]
        poi2 == a[3]
        start == a[4]
        end == a[5]
    IN  IF Len(a) # 5 THEN unpack_error(d, chs, f)
        ELSE IF channel_exists(chs, channel)
        THEN handled(add_ci(d, channel, poi1, poi2, start, end, offset, r),
                     chs, f,
                     <<Call("add_ci", <<channel, poi1, poi2, start, end>>)>>,
                     <<"adding">>)
        ELSE handled(no_effect(d), chs, f, <<>>,
                     <<"specified channel does not exist">>)

CommandLine_direct_channels(line, d, chs, f, offset, r) ==
    LET a == tail_of(split_table[line])
    IN  IF Len(a) # 2 THEN unpack_error(d, chs, f)
        ELSE handled(get_direct_channels(d, a[1], a[2], r), chs, f,
                     <<Call("get_direct_channels", a)>>,
                     <<"finding the direct channels">>)

CommandLine_channels_date(line, d, chs, f, offset, r) ==
    LET a == tail_of(split_table[line])
    IN  IF Len(a) # 2 THEN unpack_error(d, chs, f)
        ELSE handled(get_channels_date(d, a[1], a[2], offset, r), chs, f,
                     <<Call("get_channels_date", a)>>, <<"finding channels">>)

\* name = args; name[0] is used, whatever else the list holds
CommandLine_add_poi(line, d, chs, f, offset, r) ==
    LET name == tail_of(split_table[line])
    IN  IF Len(name) = 0 THEN handled(raise(d, "IndexError"), chs, f, <<>>, <<>>)
        ELSE handled(add_poi(d, name[1], r), chs, f,
                     <<Call("add_poi", <<name[1]>>)>>, <<"adding poi">>)

(***************************************************************************)
(* CommandLine.run: one action is one iteration of the while loop, from    *)
(* input() to the end of the try statement.  out holds what the iteration  *)
(* did.                                                                    *)
(***************************************************************************)
\* the exception handler that catches an exception raised in mode
caught_by(mode, raised) ==
    IF raised = "none" THEN "none"
    ELSE IF mode = "ADVANCED" /\ raised = "CypherSyntaxError" THEN "inner"
    ELSE "top"

\* handlers that swallow the exception: except ...: pass
handler_prints_nothing(caught) == <<>>

\* what the handlers print: except CypherSyntaxError prints "invalid query",
\* except Exception as f prints f
handler_prints(caught) ==
    CASE caught = "none" -> <<>>
      [] caught = "inner" -> <<"invalid query">>
      [] caught = "top" -> <<"exception">>

\* the iteration that read line, took branch, left the mode as newstate and
\* had effect e, the driver answering r
iteration(line, branch, newstate, e, r) ==
    /\ Cardinality(e.db.pois) <= MaxNodes
    /\ user_input' = line
    /\ state' = newstate
    /\ channels' = e.channels
    /\ file' = e.file
    /\ db' = e.db
    /\ out' = [branch |-> branch, before |-> state, raised |-> e.raised,
               caught |-> caught_by(state, e.raised), logged |-> e.logged,
               session |-> e.session,
               driver |-> IF e.session THEN r ELSE "none",
               queries |-> e.queries,
               printed |-> e.printed
                           \o handler_prints(caught_by(state, e.raised)),
               rows |-> e.rows, calls |-> e.calls]
    /\ UNCHANGED <<tz, closed>>

\* the effect of a branch that only assigns self.state or prints
nothing_done(printed) ==
    handled([no_effect(db) EXCEPT !.printed = printed], channels, file,
            <<>>, <<>>)

BasicQuit ==
    /\ state = "BASIC"
    /\ \E line \in BasicLines["quit"] :
          iteration(line, "quit", "QUIT", nothing_done(<<>>), "ok")

BasicAdv ==
    /\ state = "BASIC"
    /\ \E line \in BasicLines["adv"] :
          iteration(line, "adv", "ADVANCED", nothing_done(<<>>), "ok")

BasicBasic ==
    /\ state = "BASIC"
    /\ \E line \in BasicLines["basic"] :
          iteration(line, "basic", "BASIC", nothing_done(<<>>), "ok")

AddPoi ==
    /\ state = "BASIC"
    /\ \E line \in BasicLines["add_poi"], r \in DriverOutcomes :
          iteration(line, "add_poi", state,
                    CommandLine_add_poi(line, db, channels, file, tz, r), r)

UpdatePoi ==
    /\ state = "BASIC"
    /\ \E line \in BasicLines["update_poi"], r \in DriverOutcomes :
          iteration(line, "update_poi", state,
                    CommandLine_update_poi(line, db, channels, file, tz, r), r)

AddChannel ==
    /\ state = "BASIC"
    /\ \E line \in BasicLines["add_channel"] :
          iteration(line, "add_channel", state,
                    CommandLine_add_channel(line, db, channels, file, tz, "ok"),
                    "ok")

Outgoing ==
    /\ state = "BASIC"
    /\ \E line \in BasicLines["outgoing"], r \in DriverOutcomes :
          iteration(line, "outgoing", state,
                    CommandLine_outgoing_channels(line, db, channels, file,
                                                  tz, r), r)

CommunicatedWith ==
    /\ state = "BASIC"
    /\ \E line \in BasicLines["communicated_with"], r \in DriverOutcomes :
          iteration(line, "communicated_with", state,
                    CommandLine_communicated_with(line, db, channels, file,
                                                  tz, r), r)

CommBetween ==
    /\ state = "BASIC"
    /\ \E line \in BasicLines["comm_between"], r \in DriverOutcomes :
          iteration(line, "comm_between", state,
                    CommandLine_communication_between(line, db, channels,
                                                      file, tz, r), r)

AddCi ==
    /\ state = "BASIC"
    /\ \E line \in BasicLines["add_ci"], r \in DriverOutcomes :
          iteration(line, "add_ci", state,
                    CommandLine_add_ci(line, db, channels, file, tz, r), r)

DirectChannels ==
    /\ state = "BASIC"
    /\ \E line \in BasicLines["direct_channels"], r \in DriverOutcomes :
          iteration(line, "direct_channels", state,
                    CommandLine_direct_channels(line, db, channels, file,
                                                tz, r), r)

ChannelsDate ==
    /\ state = "BASIC"
    /\ \E line \in BasicLines["channels_date"], r \in DriverOutcomes :
          iteration(line, "channels_date", state,
                    CommandLine_channels_date(line, db, channels, file,
                                              tz, r), r)

Unknown ==
    /\ state = "BASIC"
    /\ \E line \in BasicLines["unknown"] :
          iteration(line, "unknown", state,
                    nothing_done(<<"unknown command">>), "ok")

\* "!q" in ADVANCED compared with, not assigned to, self.state
AdvancedQuit_compared ==
    /\ state = "ADVANCED"
    /\ \E line \in AdvancedLines["quit"] :
          iteration(line, "quit", state, nothing_done(<<>>), "ok")

AdvancedQuit ==
    /\ state = "ADVANCED"
    /\ \E line \in AdvancedLines["quit"] :
          iteration(line, "quit", "QUIT", nothing_done(<<>>), "ok")

AdvancedBasic ==
    /\ state = "ADVANCED"
    /\ \E line \in AdvancedLines["basic"] :
          iteration(line, "basic", "BASIC", nothing_done(<<>>), "ok")

AdvancedAdv ==
    /\ state = "ADVANCED"
    /\ \E line \in AdvancedLines["adv"] :
          iteration(line, "adv", "ADVANCED", nothing_done(<<>>), "ok")

AdvancedQuery ==
    /\ state = "ADVANCED"
    /\ \E line \in AdvancedLines["query"], r \in RawOutcomes :
          iteration(line, "query", state,
                    handled(run_advanced_mode_query(db, line, r), channels,
                            file, <<Call("run_advanced_mode_query", <<line>>)>>,
                            <<>>), r)

\* input() itself raises (end of input): nothing is assigned to user_input
InputError ==
    /\ state \in {"BASIC", "ADVANCED"}
    /\ iteration(user_input, "input", state,
                 handled(raise(db, "EOFError"), channels, file, <<>>, <<>>),
                 "ok")

\* the loop has ended: app.close()
Close ==
    /\ state = "QUIT"
    /\ ~closed
    /\ closed' = TRUE
    /\ UNCHANGED <<state, user_input, channels, file, db, tz, out>>

\* __main__: App(...), app.load_channels(), CommandLine(app), the process
\* running under one of the local offsets zones
main(zones) ==
    /\ state = "BASIC"
    /\ user_input = <<>>
    /\ file \in InitialFiles
    /\ channels = load_channels(file)
    /\ db = [pois |-> {}, cis |-> {}]
    /\ tz \in zones
    /\ out = [branch |-> "start", before |-> "BASIC", raised |-> "none",
              caught |-> "none", logged |-> FALSE, session |-> FALSE,
              driver |-> "none", queries |-> <<>>, printed |-> <<>>,
              rows |-> <<>>, calls |-> <<>>]
    /\ closed = FALSE

\* the process runs one hour ahead of UTC
Init == main({3600})

\* the process runs under any of the offsets
InitZones == main(Offsets)

Next ==
    \/ BasicQuit \/ BasicAdv \/ BasicBasic
    \/ AddPoi \/ UpdatePoi \/ AddChannel \/ Outgoing \/ CommunicatedWith
    \/ CommBetween \/ AddCi \/ DirectChannels \/ ChannelsDate \/ Unknown
    \/ AdvancedQuit \/ AdvancedBasic \/ AdvancedAdv \/ AdvancedQuery
    \/ InputError
    \/ Close

Spec == Init /\ [][Next]_vars

SpecZones == InitZones /\ [][Next]_vars

(***************************************************************************)
(* Properties.                                                             *)
(***************************************************************************)
\* the arguments of the line the last iteration read
typed == tail_of(split_table[user_input])

\* the arguments of the line the step's iteration reads
typed_next == tail_of(split_table[user_input'])

\* a line holding name
printed_line(printed, name) == \E i \in DOMAIN printed : printed[i] = name

\* both timestamps are accepted by get_unixtime under the process's offset
times_ok(start, end) ==
    /\ get_unixtime(start, tz).raised = "none"
    /\ get_unixtime(end, tz).raised = "none"

\* C1: in an !add_ci line of five arguments with valid times whose FIRST
\* argument is a registered channel, the channel check passes and one
\* write is issued whose relationship type is the first argument
\* upper-cased, whose contacting POI is the second and whose contacted POI
\* is the third argument.
C1_ChannelFirst ==
    (/\ out.branch = "add_ci"
     /\ Len(typed) = 5
     /\ upper(typed[1]) \in channels
     /\ times_ok(typed[4], typed[5]))
    => /\ Len(out.queries) = 1
       /\ out.queries[1].fn = "_add_ci"
       /\ SubSeq(out.queries[1].args, 1, 3)
             = <<upper(typed[1]), typed[2], typed[3]>>

\* C2: a step that reads an !add_ci line of five arguments whose channel
\* (the argument the handler takes as channel) is not in the registry opens
\* no session, issues no query, raises nothing, prints the user message and
\* leaves database, registry, file and mode as they were.
C2_UnknownChannelRejected ==
    [][(/\ out'.branch = "add_ci"
        /\ Len(typed_next) = 5
        /\ upper_table[typed_next[2]] \notin channels)
       => /\ ~out'.session
          /\ out'.queries = <<>>
          /\ out'.calls = <<>>
          /\ out'.raised = "none"
          /\ out'.printed = <<"specified channel does not exist">>
          /\ UNCHANGED <<db, channels, file, state>>]_vars

\* C2 witness: an !add_ci naming an unregistered channel was rejected while
\* the registry held a channel and the database held a POI
C2_Witness ==
    /\ out.branch = "add_ci"
    /\ Len(typed) = 5
    /\ typed[2] = w_nochan
    /\ out.printed = <<"specified channel does not exist">>
    /\ channels # {}
    /\ db.pois # {}

\* the number of lines of file f equal to ch
line_count(f, ch) ==
    Cardinality({i \in DOMAIN readlines(f) : readlines(f)[i] = ch})

\* C3: every call of add_channel leaves exactly one line for the channel
\* in the file; when the file already held the upper-cased name the call
\* reports "Channel already exists" and writes nothing, otherwise it
\* appends the upper-cased name and a newline and reloads the registry.
C3_AddChannelIdempotent ==
    [][(out'.branch = "add_channel" /\ Len(typed_next) = 1)
       => LET ch == upper_table[typed_next[1]]
          IN  /\ line_count(file', ch) = 1
              /\ channels' = load_channels(file')
              /\ IF line_count(file, ch) > 0
                 THEN /\ file' = file
                      /\ printed_line(out'.printed, "Channel already exists")
                 ELSE /\ file' = file \o ch \o <<"\n">>
                      /\ ~printed_line(out'.printed, "Channel already exists")
      ]_vars

\* C3 witness: "Signal" was added when the file held SIGNAL (which only an
\* earlier add_channel of "signal" or "Signal" wrote) next to another line:
\* the call reported "already exists" and the file holds SIGNAL once
C3_Witness ==
    /\ out.branch = "add_channel"
    /\ typed = <<w_Signal>>
    /\ printed_line(out.printed, "Channel already exists")
    /\ line_count(file, upper(w_signal)) = 1
    /\ Len(readlines(file)) = 2

\* C4: a step that reads the line "!q" leaves the state QUIT, in BASIC and
\* in ADVANCED; once the state is QUIT no line is read, nothing is printed
\* or queried and state, database, registry and file never change again.
C4_QuitTerminal ==
    /\ [](state = "QUIT" => /\ user_input = tok_q
                            /\ out.branch = "quit"
                            /\ out.queries = <<>>
                            /\ out.calls = <<>>)
    /\ [][/\ (user_input' = tok_q /\ out'.branch # "input")
             => state' = "QUIT"
          /\ state = "QUIT"
             => UNCHANGED <<state, user_input, out, db, channels, file>>
         ]_vars

\* C4 witness: "!q" typed in ADVANCED ended the loop, and the driver was
\* closed after it
C4_Witness ==
    /\ state = "QUIT"
    /\ out.before = "ADVANCED"
    /\ user_input = tok_q
    /\ closed

\* the App operation each command branch calls
operation_of(branch) ==
    CASE branch = "add_poi" -> "add_poi"
      [] branch = "update_poi" -> "update_poi"
      [] branch = "add_channel" -> "add_channel"
      [] branch = "outgoing" -> "find_all_outgoing_contacts"
      [] branch = "communicated_with" -> "communicated_with"
      [] branch = "comm_between" -> "communication_between"
      [] branch = "add_ci" -> "add_ci"
      [] branch = "direct_channels" -> "get_direct_channels"
      [] branch = "channels_date" -> "get_channels_date"

\* the number of arguments the interface declares for each command branch
declared(branch) ==
    CASE branch \in {"add_poi", "add_channel", "outgoing"} -> 1
      [] branch \in {"communicated_with", "comm_between", "direct_channels",
                     "channels_date"} -> 2
      [] branch = "update_poi" -> 3
      [] branch = "add_ci" -> 5

CommandBranches ==
    {"add_poi", "update_poi", "add_channel", "outgoing", "communicated_with",
     "comm_between", "add_ci", "direct_channels", "channels_date"}

\* C5: after a line with a recognized command prefix, if the line held
\* exactly the declared number of arguments the operation was called with
\* exactly those arguments (for !add_ci: unless the channel was rejected),
\* and if it held any other number an error was raised and printed, no
\* operation was called, and the loop goes on in the same mode.
C5_ArgumentCount ==
    out.branch \in CommandBranches
    => IF Len(typed) = declared(out.branch)
       THEN \/ out.calls =
                 <<Call(operation_of(out.branch),
                        IF out.branch = "add_ci"
                        THEN <<typed[2], typed[1], typed[3], typed[4],
                               typed[5]>>
                        ELSE typed)>>
            \/ /\ out.branch = "add_ci"
               /\ out.printed = <<"specified channel does not exist">>
       ELSE /\ out.calls = <<>>
            /\ out.raised # "none"
            /\ printed_line(out.printed, "exception")
            /\ state = out.before

\* C6: after an iteration in which an error was raised, the error (or
\* "invalid query") was printed last, the mode is the one before the line,
\* and the loop has not ended; the loop has ended only after a line "!q".
C6_NoErrorIsFatal ==
    /\ out.raised # "none"
       => /\ out.printed # <<>>
          /\ out.printed[Len(out.printed)] \in {"exception", "invalid query"}
          /\ out.caught \in {"top", "inner"}
          /\ state = out.before
          /\ state \in {"BASIC", "ADVANCED"}
          /\ ~closed
    /\ (state = "QUIT" \/ closed)
       => /\ user_input = tok_q
          /\ out.branch = "quit"
          /\ out.raised = "none"

\* C6 witness: a database failure in ADVANCED mode other than a syntax
\* error was printed by the top-level handler and the mode stayed ADVANCED
C6_Witness ==
    /\ out.raised = "ServiceUnavailable"
    /\ out.before = "ADVANCED"
    /\ out.caught = "top"
    /\ state = "ADVANCED"

\* 'YYYY-MM-DD_HH:MM' as it is to be displayed: 'YYYY-MM-DD HH:MM:00'
displayed(text) ==
    [i \in DOMAIN text |-> IF text[i] = "_" THEN " " ELSE text[i]]
    \o <<":", "0", "0">>

\* C7: the timestamps an add_ci or a channels_date encoded into its query
\* (among them "2024-03-01_10:30") decode with get_datetime to the typed
\* timestamps, with seconds 00, under every local offset.
C7_RoundTrip ==
    /\ (out.branch = "add_ci" /\ Len(out.queries) = 1)
       => /\ get_datetime(literal_value(out.queries[1].args[4]))
                = displayed(out.calls[1].args[4])
          /\ get_datetime(literal_value(out.queries[1].args[5]))
                = displayed(out.calls[1].args[5])
    /\ (out.branch = "channels_date" /\ Len(out.queries) = 1)
       => /\ get_datetime(literal_value(out.queries[1].args[1]))
                = displayed(out.calls[1].args[1])
          /\ get_datetime(literal_value(out.queries[1].args[2]))
                = displayed(out.calls[1].args[2])

\* C8: after a BASIC command during which the driver raised
\* ServiceUnavailable, the query and the error were logged and the error
\* the top-level handler caught is that ServiceUnavailable.
C8_ServiceUnavailableLogged ==
    (out.before = "BASIC" /\ out.driver \in {"su_run", "su_fetch"})
    => /\ out.logged
       /\ out.raised = "ServiceUnavailable"
       /\ out.caught = "top"

\* a line that is none of the commands CommandLine.run recognizes
unrecognized(line) ==
    /\ line \notin {tok_q, tok_adv, tok_basic}
    /\ \A p \in Prefixes : ~startswith(line, p)

\* C9 as stated: in BASIC and in ADVANCED, after a line that is no
\* recognized command "unknown command" was printed, no query was issued
\* and the mode is as before.
C9_UnknownAnyMode ==
    (out.branch \notin {"start", "input"} /\ unrecognized(user_input))
    => /\ out.printed = <<"unknown command">>
       /\ out.queries = <<>>
       /\ state = out.before

\* C9 amended: a step that reads, in BASIC, a line that is no recognized
\* command prints "unknown command", opens no session, issues no query,
\* calls no operation, raises nothing and leaves mode, registry, file and
\* database as they were.
C9_UnknownInBasic ==
    [][(state = "BASIC" /\ out'.branch # "input" /\ unrecognized(user_input'))
       => /\ out'.printed = <<"unknown command">>
          /\ ~out'.session
          /\ out'.queries = <<>>
          /\ out'.calls = <<>>
          /\ out'.raised = "none"
          /\ UNCHANGED <<state, channels, file, db>>]_vars

\* C9 witness: "!bogus foo" was answered "unknown command" in BASIC while
\* registry and database were not empty
C9_Witness ==
    /\ out.branch = "unknown"
    /\ out.before = "BASIC"
    /\ user_input = w_bogus \o <<" ">> \o w_foo
    /\ out.printed = <<"unknown command">>
    /\ channels # {}
    /\ db.pois # {}

\* C10: the state starts as BASIC and always is BASIC, ADVANCED or QUIT; a
\* step that reads "!adv" leaves it ADVANCED, one that reads "!basic"
\* leaves it BASIC, and a step that reads any other line than "!q", or
\* fails to read one, leaves it as it was.
C10_ModeTransitions ==
    /\ state = "BASIC"
    /\ [](state \in {"BASIC", "ADVANCED", "QUIT"})
    /\ [][IF out'.branch = "input" THEN state' = state
          ELSE /\ user_input' = tok_adv => state' = "ADVANCED"
               /\ user_input' = tok_basic => state' = "BASIC"
               /\ user_input' \notin {tok_adv, tok_basic, tok_q}
                  => state' = state
         ]_vars

\* C10 witness: in ADVANCED, a line that merely starts with "!adv" was read
\* (and sent as a query that failed) and the mode is still ADVANCED
C10_Witness ==
    /\ state = "ADVANCED"
    /\ out.before = "ADVANCED"
    /\ user_input = w_advx
    /\ out.raised = "CypherSyntaxError"

\* C11: a step that reads, in ADVANCED, a line other than "!q", "!basic"
\* and "!adv" sends exactly that line, once, as one auto-commit query, calls
\* no other operation, and leaves registry, file and mode as they were; if
\* the query is a syntax error, "invalid query" is what is printed.
C11_AdvancedPassthrough ==
    [][(/\ state = "ADVANCED"
        /\ out'.branch # "input"
        /\ user_input' \notin {tok_q, tok_basic, tok_adv})
       => /\ out'.queries = <<Query("run", "auto", <<user_input'>>)>>
          /\ out'.calls = <<Call("run_advanced_mode_query", <<user_input'>>)>>
          /\ out'.session
          /\ UNCHANGED <<channels, file, state>>
          /\ out'.raised = "CypherSyntaxError"
             => /\ out'.printed = <<"invalid query">>
                /\ out'.caught = "inner"]_vars

\* C11 witness: "!add_channel signal" typed in ADVANCED while SIGNAL was not
\* registered was sent as a query, which was a syntax error: "invalid
\* query" was printed, SIGNAL is still not registered, the mode is ADVANCED
C11_Witness ==
    /\ state = "ADVANCED"
    /\ out.before = "ADVANCED"
    /\ user_input = command(tok_add_channel, <<w_signal>>)
    /\ out.queries = <<Query("run", "auto", <<user_input>>)>>
    /\ out.raised = "CypherSyntaxError"
    /\ out.printed = <<"invalid query">>
    /\ upper(w_signal) \notin channels

\* C12: the registry always is the set of lines of the file; a step never
\* removes or changes what the file holds, and what it appends is one
\* upper-cased line with its newline.
C12_RegistryIsFile ==
    /\ [](channels = load_channels(file))
    /\ [][/\ startswith(file', file)
          /\ file' # file
             => LET added == SubSeq(file', Len(file) + 1, Len(file'))
                IN  /\ added = upper(added)
                    /\ added[Len(added)] = "\n"
                    /\ Len(readlines(file')) = Len(readlines(file)) + 1
         ]_vars

\* C12 witness: "signal" was added to a file that held TOR: the file holds
\* TOR and SIGNAL, and so does the registry
C12_Witness ==
    /\ out.branch = "add_channel"
    /\ typed = <<w_signal>>
    /\ ~printed_line(out.printed, "Channel already exists")
    /\ readlines(file) = <<L_TOR, upper(w_signal)>>
    /\ channels = {L_TOR, upper(w_signal)}

====
